---- MODULE Spec2Model ----
(***************************************************************************)
(* Control logic of ratiometry_script.py: file enumeration, the per-file   *)
(* series inspection, the per-series pipeline with its threshold modes,    *)
(* the output naming and the release of image stacks.  Image operations    *)
(* are opaque; each may raise, which ends the script (no try/except).      *)
(* Strings are sequences of one-character strings.                         *)
(***************************************************************************)
EXTENDS Integers, Sequences, FiniteSets, TLC

\* ---------------------------------------------------------------- bounds
MaxDepth == 2       \* directory levels under src_dir in the enumeration runs
MaxDirFiles == 2    \* files listed per directory in the enumeration runs
MaxNameLen == 2     \* length of a file name in the enumeration runs
MaxFilterLen == 1   \* length of filename_filter in the enumeration runs
RunDepth == 2       \* directory levels under src_dir in the pipeline runs
MaxSeries == 2      \* series per file
MaxRes == 2         \* resolution levels per series
MaxThresh == 1      \* thresholds the operator can pick: 0..MaxThresh

\* ---------------------------------------------------------------- strings
\* characters in code-point order, as Python compares str values
Alphabet == <<"*", ".", "/", "?", "a", "b", "d", "n", "o", "s">>

Ord(c) == CHOOSE i \in 1..Len(Alphabet) : Alphabet[i] = c

\* a < b for Python str
StrLess(a, b) ==
    \E i \in 1..(Len(a) + 1) :
        /\ \A j \in 1..(i - 1) : j <= Len(b) /\ a[j] = b[j]
        /\ IF i > Len(a) THEN i <= Len(b)
           ELSE i <= Len(b) /\ Ord(a[i]) < Ord(b[i])

RECURSIVE Insert(_, _)
Insert(x, s) ==
    IF s = <<>> THEN <<x>>
    ELSE IF StrLess(x, Head(s)) THEN <<x>> \o s
    ELSE <<Head(s)>> \o Insert(x, Tail(s))

\* sorted(files)
RECURSIVE sorted(_)
sorted(s) == IF s = <<>> THEN <<>> ELSE Insert(Head(s), sorted(Tail(s)))

\* index of the last occurrence of c in p[1..n], 0 when absent
RECURSIVE RFindFrom(_, _, _)
RFindFrom(p, c, n) ==
    IF n = 0 THEN 0
    ELSE IF p[n] = c THEN n
    ELSE RFindFrom(p, c, n - 1)

\* str.rfind(c) + 1
RFind(p, c) == RFindFrom(p, c, Len(p))

os_path_basename(p) == SubSeq(p, RFind(p, "/") + 1, Len(p))

os_path_dirname(p) ==
    LET i == RFind(p, "/")
        head == SubSeq(p, 1, i)
    IN  IF \A k \in 1..Len(head) : head[k] = "/" THEN head
        ELSE SubSeq(p, 1, i - 1)

\* os.path.splitext(p)[0]: cut at the last dot of the last component,
\* unless that component has only dots before it
os_path_splitext(p) ==
    LET sep == RFind(p, "/")
        dot == RFind(p, ".")
    IN  IF dot > sep /\ \E k \in (sep + 1)..(dot - 1) : p[k] # "."
        THEN SubSeq(p, 1, dot - 1)
        ELSE p

os_path_join(a, b) ==
    IF b # <<>> /\ b[1] = "/" THEN b
    ELSE IF a = <<>> \/ a[Len(a)] = "/" THEN a \o b
    ELSE a \o <<"/">> \o b

\* fnmatch: "*" matches any run of characters, "?" any one character, every
\* other character of the alphabet itself; the whole name must match
RECURSIVE fnmatch(_, _)
fnmatch(name, pat) ==
    IF pat = <<>> THEN name = <<>>
    ELSE IF Head(pat) = "*"
         THEN \/ fnmatch(name, Tail(pat))
              \/ name # <<>> /\ fnmatch(Tail(name), pat)
    ELSE IF Head(pat) = "?"
         THEN name # <<>> /\ fnmatch(Tail(name), Tail(pat))
    ELSE name # <<>> /\ Head(name) = Head(pat) /\ fnmatch(Tail(name), Tail(pat))

\* fnmatch.filter(filenames, pat): the matching names, in listing order
RECURSIVE fnmatch_filter(_, _)
fnmatch_filter(filenames, pat) ==
    IF filenames = <<>> THEN <<>>
    ELSE (IF fnmatch(Head(filenames), pat) THEN <<Head(filenames)>> ELSE <<>>)
         \o fnmatch_filter(Tail(filenames), pat)

\* ---------------------------------------------------------------- file system
\* A directory tree is a function from the depth of a directory (0 is the
\* root, each directory has one sub-directory "d") to the listing os.walk
\* gets for it: the file names in the order the file system returns them.
RECURSIVE DirPath(_, _)
DirPath(root, depth) ==
    IF depth = 0 THEN root ELSE os_path_join(DirPath(root, depth - 1), <<"d">>)

RECURSIVE JoinAll(_, _)
JoinAll(dirpath, names) ==
    IF names = <<>> THEN <<>>
    ELSE <<os_path_join(dirpath, Head(names))>> \o JoinAll(dirpath, Tail(names))

\* the os.walk loop of getFileList from directory level depth downwards
RECURSIVE Walk(_, _, _, _)
Walk(tree, directory, filteringString, depth) ==
    IF depth \notin DOMAIN tree THEN <<>>
    ELSE JoinAll(DirPath(directory, depth),
                 fnmatch_filter(tree[depth], <<"*">> \o filteringString))
         \o Walk(tree, directory, filteringString, depth + 1)

getFileList(tree, directory, filteringString) ==
    Walk(tree, directory, filteringString, 0)

\* ---------------------------------------------------------------- inputs
Thresholds == 0..MaxThresh

\* the (min, max) pairs the operator can confirm in the Threshold dialog
ThresholdPairs == {p \in Thresholds \X Thresholds : p[1] <= p[2]}

ThreshMethods == {"Fully automatic", "Manual once and apply to all", "Fully manual"}

SeqsUpTo(S, n) == UNION {[1..k -> S] : k \in 0..n}

Distinct(s) == \A i, j \in 1..Len(s) : i # j => s[i] # s[j]

EnumNames == SeqsUpTo({"a", "b"}, MaxNameLen) \ {<<>>}

EnumFilters == SeqsUpTo({"a", "b", "?", "*"}, MaxFilterLen)

EnumTrees ==
    [0..(MaxDepth - 1) -> {l \in SeqsUpTo(EnumNames, MaxDirFiles) : Distinct(l)}]

\* pipeline runs: every directory holds at most one image, "a.n", or "o.n"
\* as well in the root (which sorts after the sub-directory "d")
RunNames(depth) ==
    IF depth = 0 THEN {<<"a", ".", "n">>, <<"o", ".", "n">>} ELSE {<<"a", ".", "n">>}

RunTrees ==
    {t \in [0..(RunDepth - 1) -> {<<>>} \cup {<<n>> : n \in RunNames(0)}] :
        \A d \in DOMAIN t : t[d] = <<>> \/ t[d][1] \in RunNames(d)}

\* what the metadata reader answers for one file: its series count n and the
\* resolution counts get_series_info_from_ome_metadata asks for, those of
\* series 0..n-2
Metadata ==
    UNION {{<<n, res>> : res \in [1..(n - 1) -> 1..MaxRes]} : n \in 0..MaxSeries}

\* ---------------------------------------------------------------- state
VARIABLES
    tree,              \* the directory tree under src_dir
    src_dir, out_dir, filename_filter, do_stackreg, thresh_method,
    files,             \* getFileList's result
    order,             \* sorted(files), the list the file loop iterates
    file_id,           \* index of the current file in order (from 0)
    folder, basename,  \* lines 241-243, 258
    resolutions,       \* resolution counts read for the current file
    series_count, series_index,
    series,            \* index of the current series (from 0)
    loadIndex,         \* series number last handed to open_single_series_with_BF
    out_ratio,
    thresh_value,
    min_thresh_value,  \* <<>> while the name is unbound, <<v>> once assigned
    stacks,            \* images created and not closed: <<name, iteration>>
    iter,              \* number of series iterations started in the run
    promptCount,       \* WaitForUserDialog shows
    thrSeen,           \* series that went through the threshold branch
    lastPrompt,        \* pair captured by the latest prompt
    promptIter,        \* iteration of the latest prompt
    lastBin,           \* pair given to IJ.setThreshold by the latest series
    binCount,          \* series binarized by IJ.setThreshold
    stateReads,        \* evaluations of line 312's threshold arguments
    exportLog,         \* IJ.saveAs calls: file, series, path
    outputs,           \* what each written path holds
    finished,          \* "Script finished !" logged
    error,             \* "none", or the exception that ended the script
    pc

cfg == <<tree, src_dir, out_dir, filename_filter, do_stackreg, thresh_method>>

enum == <<files, order, file_id>>

meta == <<folder, basename, resolutions, series_count, series_index>>

thr == <<thresh_value, min_thresh_value, promptCount, thrSeen, lastPrompt, promptIter, lastBin, binCount, stateReads>>

out == <<out_ratio, exportLog, outputs>>

vars == <<cfg, enum, meta, series, loadIndex, thr, out, stacks, iter,
          finished, error, pc>>

InitCommon ==
    /\ src_dir = <<"/", "s">>
    /\ out_dir = <<"/", "o">>
    /\ do_stackreg \in BOOLEAN
    /\ thresh_method \in ThreshMethods
    /\ files = <<>>
    /\ order = <<>>
    /\ file_id = 0
    /\ folder = <<>>
    /\ basename = <<>>
    /\ resolutions = <<>>
    /\ series_count = 0
    /\ series_index = <<>>
    /\ series = 0
    /\ loadIndex = 0
    /\ out_ratio = <<>>
    /\ thresh_value = 0
    /\ min_thresh_value = <<>>
    /\ stacks = {}
    /\ iter = 0
    /\ promptCount = 0
    /\ thrSeen = 0
    /\ lastPrompt = <<>>
    /\ promptIter = 0
    /\ lastBin = <<>>
    /\ binCount = 0
    /\ stateReads = 0
    /\ exportLog = <<>>
    /\ outputs = <<>>
    /\ finished = FALSE
    /\ error = "none"
    /\ pc = "start"

Init ==
    /\ tree \in RunTrees
    /\ filename_filter = <<".", "n">>
    /\ InitCommon

InitEnum ==
    /\ tree \in EnumTrees
    /\ filename_filter \in EnumFilters
    /\ InitCommon

CurrentFile == order[file_id + 1]

\* ---------------------------------------------------------------- lines 226-239
\* lines 227-234
GetFileList ==
    /\ pc = "start"
    /\ files' = getFileList(tree, src_dir, filename_filter)
    /\ thresh_value' = 0
    /\ pc' = "enumerated"
    /\ UNCHANGED <<cfg, order, file_id, meta, series, loadIndex, out, stacks,
                   iter, finished, error, min_thresh_value, promptCount,
                   thrSeen, lastPrompt, promptIter, lastBin,
                   binCount, stateReads>>

\* lines 237-239, files not empty: the loop iterates sorted(files)
EnterLoop ==
    /\ pc = "enumerated"
    /\ files # <<>>
    /\ order' = sorted(files)
    /\ file_id' = 0
    /\ pc' = "file"
    /\ UNCHANGED <<cfg, files, meta, series, loadIndex, thr, out, stacks, iter,
                   finished, error>>

\* line 237, files empty
NoFiles ==
    /\ pc = "enumerated"
    /\ files = <<>>
    /\ pc' = "finish"
    /\ UNCHANGED <<cfg, enum, meta, series, loadIndex, thr, out, stacks, iter,
                   finished, error>>

NextEnum == GetFileList \/ EnterLoop \/ NoFiles

SpecEnum == InitEnum /\ [][NextEnum]_vars

\* ---------------------------------------------------------------- lines 126-158
\* reader.setSeries(i - 1) of line 152
setSeriesArg(i) == i - 1

\* the resolution count read but not added to the running offset
Forget(resolution_count, count) == resolution_count

\* line 153: resolution_count += reader.getResolutionCount()
Accumulate(resolution_count, count) == resolution_count + count

\* the loop of lines 146-154 from index i on; res[k + 1] is what
\* reader.getResolutionCount() returns after reader.setSeries(k)
RECURSIVE SeriesIndexLoop(_, _, _, _, _)
SeriesIndexLoop(n, res, i, resolution_count, index) ==
    IF i >= n THEN index
    ELSE IF i = 0 THEN SeriesIndexLoop(n, res, 1, 0, Append(index, 0))
    ELSE LET rc == Accumulate(resolution_count, res[setSeriesArg(i) + 1])
         IN  SeriesIndexLoop(n, res, i + 1, rc, Append(index, rc))

\* returns <<series_count, series_index>>
get_series_info_from_ome_metadata(n, res) ==
    <<n, SeriesIndexLoop(n, res, 0, 0, <<>>)>>

\* ---------------------------------------------------------------- lines 239-265
RatioSuffix == <<"_", "r", "a", "t", "i", "o", ".", "t", "i", "f">>

AlignedSuffix == <<"_", "r", "a", "t", "i", "o", "_", "c", "h", "n", "l",
                   "a", "l", "i", "g", "n", "e", "d", ".", "t", "i", "f">>

\* the output written next to the input instead of under out_dir
OutRatioInFolder(dir, base, aligned) ==
    os_path_join(folder, base \o (IF aligned THEN AlignedSuffix ELSE RatioSuffix))

\* lines 260-264: out_ratio
OutRatio(dir, base, aligned) ==
    os_path_join(dir, base \o (IF aligned THEN AlignedSuffix ELSE RatioSuffix))

\* line 239, the list is exhausted
EndOfFiles ==
    /\ pc = "file"
    /\ file_id >= Len(order)
    /\ pc' = "finish"
    /\ UNCHANGED <<cfg, enum, meta, series, loadIndex, thr, out, stacks, iter,
                   finished, error>>

\* lines 239-251: names of the next file, then its metadata
Inspect ==
    /\ pc = "file"
    /\ file_id < Len(order)
    /\ folder' = os_path_dirname(CurrentFile)
    /\ basename' = os_path_splitext(os_path_basename(CurrentFile))
    /\ \E m \in Metadata :
        /\ resolutions' = m[2]
        /\ series_count' = get_series_info_from_ome_metadata(m[1], m[2])[1]
        /\ series_index' = get_series_info_from_ome_metadata(m[1], m[2])[2]
    /\ series' = 0
    /\ pc' = "series"
    /\ UNCHANGED <<cfg, enum, loadIndex, thr, out, stacks, iter, finished, error>>

\* line 253, range(series_count) is exhausted: on to the next file
EndOfSeries ==
    /\ pc = "series"
    /\ series >= series_count
    /\ file_id' = file_id + 1
    /\ pc' = "file"
    /\ UNCHANGED <<cfg, files, order, meta, series, loadIndex, thr, out, stacks,
                   iter, finished, error>>

\* lines 253-256
OpenSeries ==
    /\ pc = "series"
    /\ series < series_count
    /\ loadIndex' = series_index[series + 1]
    /\ iter' = iter + 1
    /\ stacks' = stacks \cup {<<"imp", iter + 1>>}
    /\ pc' = "segment"
    /\ UNCHANGED <<cfg, enum, meta, series, thr, out, finished, error>>

\* lines 258-294: output name, alignment, blur, the three duplicates and the
\* Laplacian
Segment ==
    /\ pc = "segment"
    /\ basename' = os_path_basename(CurrentFile)
    /\ out_ratio' = OutRatio(out_dir, basename', do_stackreg)
    /\ stacks' = stacks \cup {<<"imp_c1", iter>>, <<"imp_c2", iter>>,
                              <<"imp_segment", iter>>, <<"imp_laplace", iter>>}
    /\ pc' = "threshold"
    /\ UNCHANGED <<cfg, enum, folder, resolutions, series_count, series_index,
                   series, loadIndex, thr, exportLog, outputs, iter, finished,
                   error>>

\* ---------------------------------------------------------------- lines 296-317
\* the dialog branch as an "if" of its own instead of an "elif"
PromptWhenZero(method, value) == value = 0

\* line 303: the branch that shows the dialog
ShouldPrompt(method, value) == method # "Fully automatic" /\ value = 0

\* the captured threshold kept after use in every mode
KeepAfterUse(method, value) == value

\* lines 316-317
ResetThreshold(method, value) == IF method = "Fully manual" THEN 0 ELSE value

\* lines 296-302
AutoThreshold ==
    /\ pc = "threshold"
    /\ thresh_method = "Fully automatic"
    /\ thrSeen' = thrSeen + 1
    /\ pc' = "binarize"
    /\ UNCHANGED <<cfg, enum, meta, series, loadIndex, out, stacks, iter,
                   finished, error, thresh_value, min_thresh_value, promptCount,
                   lastPrompt, promptIter, lastBin, binCount,
                   stateReads>>

\* lines 303-310: the operator confirms a pair in the dialog
Prompt ==
    /\ pc = "threshold"
    /\ ShouldPrompt(thresh_method, thresh_value)
    /\ \E p \in ThresholdPairs :
        /\ thresh_value' = p[2]
        /\ min_thresh_value' = <<p[1]>>
        /\ lastPrompt' = p
    /\ promptCount' = promptCount + 1
    /\ promptIter' = iter
    /\ thrSeen' = thrSeen + 1
    /\ pc' = "binarize"
    /\ UNCHANGED <<cfg, enum, meta, series, loadIndex, out, stacks, iter,
                   finished, error, lastBin, binCount, stateReads>>

\* neither branch of lines 296-310 is taken
KeepThreshold ==
    /\ pc = "threshold"
    /\ thresh_method # "Fully automatic"
    /\ ~ShouldPrompt(thresh_method, thresh_value)
    /\ thrSeen' = thrSeen + 1
    /\ pc' = "binarize"
    /\ UNCHANGED <<cfg, enum, meta, series, loadIndex, out, stacks, iter,
                   finished, error, thresh_value, min_thresh_value, promptCount,
                   lastPrompt, promptIter, lastBin, binCount,
                   stateReads>>

\* line 312 when min_thresh_value was never assigned: NameError
UnboundThreshold ==
    /\ pc = "binarize"
    /\ min_thresh_value = <<>>
    /\ stateReads' = stateReads + 1
    /\ error' = "NameError"
    /\ pc' = "halt"
    /\ UNCHANGED <<cfg, enum, meta, series, loadIndex, out, stacks, iter,
                   finished, thresh_value, min_thresh_value, promptCount,
                   thrSeen, lastPrompt, promptIter, lastBin, binCount>>

\* lines 312-317
Binarize ==
    /\ pc = "binarize"
    /\ min_thresh_value # <<>>
    /\ stateReads' = stateReads + 1
    /\ lastBin' = <<min_thresh_value[1], thresh_value>>
    /\ binCount' = binCount + 1
    /\ thresh_value' = ResetThreshold(thresh_method, thresh_value)
    /\ pc' = "ratio"
    /\ UNCHANGED <<cfg, enum, meta, series, loadIndex, out, stacks, iter,
                   finished, error, min_thresh_value, promptCount, thrSeen,
                   lastPrompt, promptIter>>

\* ---------------------------------------------------------------- lines 319-354
\* lines 319-332: the mask is normalised, then Divide and Multiply each
\* create an image; imp_result ends as the Multiply result
Ratio ==
    /\ pc = "ratio"
    /\ stacks' = stacks \cup {<<"divide_result", iter>>, <<"imp_result", iter>>}
    /\ pc' = "export"
    /\ UNCHANGED <<cfg, enum, meta, series, loadIndex, thr, out, iter, finished,
                   error>>

\* lines 335-343
Export ==
    /\ pc = "export"
    /\ exportLog' = Append(exportLog, [file |-> CurrentFile, series |-> series,
                                       path |-> out_ratio])
    /\ outputs' = (out_ratio :> [file |-> CurrentFile, series |-> series])
                  @@ outputs
    /\ pc' = "close"
    /\ UNCHANGED <<cfg, enum, meta, series, loadIndex, thr, out_ratio, stacks,
                   iter, finished, error>>

\* the images lines 347-352 close
Closed(n) == {<<"imp", n>>, <<"imp_result", n>>, <<"imp_c1", n>>,
              <<"imp_c2", n>>, <<"imp_laplace", n>>, <<"imp_segment", n>>}

\* lines 347-352, then the next series
CloseAll ==
    /\ pc = "close"
    /\ stacks' = stacks \ Closed(iter)
    /\ series' = series + 1
    /\ pc' = "series"
    /\ UNCHANGED <<cfg, enum, meta, loadIndex, thr, out, iter, finished, error>>

\* line 354
Finish ==
    /\ pc = "finish"
    /\ finished' = TRUE
    /\ pc' = "done"
    /\ UNCHANGED <<cfg, enum, meta, series, loadIndex, thr, out, stacks, iter,
                   error>>

\* the statement about to run calls into Bio-Formats or ImageJ
CanRaise ==
    \/ pc = "file" /\ file_id < Len(order)
    \/ pc = "series" /\ series < series_count
    \/ pc \in {"segment", "threshold", "ratio", "export"}
    \/ pc = "binarize" /\ min_thresh_value # <<>>

\* a failure caught around the file body: the loop goes on with the next file
RaiseAndSkipFile ==
    /\ CanRaise
    /\ error' = "Exception"
    /\ file_id' = file_id + 1
    /\ pc' = "file"
    /\ UNCHANGED <<cfg, files, order, meta, series, loadIndex, thr, out, stacks,
                   iter, finished>>

\* a call raises: nothing in lines 237-354 catches it, the script ends
Raise ==
    /\ CanRaise
    /\ error' = "Exception"
    /\ pc' = "halt"
    /\ UNCHANGED <<cfg, enum, meta, series, loadIndex, thr, out, stacks, iter,
                   finished>>

Next ==
    \/ GetFileList \/ EnterLoop \/ NoFiles
    \/ EndOfFiles \/ Inspect \/ EndOfSeries \/ OpenSeries \/ Segment
    \/ AutoThreshold \/ Prompt \/ KeepThreshold \/ UnboundThreshold \/ Binarize
    \/ Ratio \/ Export \/ CloseAll \/ Finish \/ Raise

Spec == Init /\ [][Next]_vars

\* ---------------------------------------------------------------- properties
ManualOnce == thresh_method = "Manual once and apply to all"

FullyManual == thresh_method = "Fully manual"

Automatic == thresh_method = "Fully automatic"

\* C1: in "Manual once and apply to all" mode the dialog is shown exactly
\* once, on the first series of the run, whatever pair the operator confirms
\* (a max threshold of 0 included), and every series is binarized with the
\* pair captured on that first series.
C1_ManualOncePromptsOnce ==
    ManualOnce =>
        /\ thrSeen >= 1 => promptCount = 1 /\ promptIter = 1
        /\ binCount >= 1 => lastBin = lastPrompt

\* C2: in "Fully automatic" mode no step reads the threshold variables of the
\* run state, and a series goes on from its Moments threshold to the ratio
\* and the export instead of ending on those variables.
C2_AutomaticIgnoresThresholdState ==
    Automatic => stateReads = 0 /\ error # "NameError"

\* C3: every output path is out_dir joined with the input's base name, its
\* suffix stripped, followed by "_ratio.tif", or by "_ratio_chnlaligned.tif"
\* when channel alignment is enabled.
C3_OutputNameStripsSuffix ==
    \A i \in DOMAIN exportLog :
        exportLog[i].path =
            os_path_join(out_dir,
                os_path_splitext(os_path_basename(exportLog[i].file))
                \o (IF do_stackreg THEN AlignedSuffix ELSE RatioSuffix))

\* C4: between two series iterations, between two files, and once the run
\* has ended (normally or on a failure), no image created by an earlier
\* series is left unclosed.
C4_StacksReleased ==
    pc \in {"series", "file", "finish", "done", "halt"} => stacks = {}

\* C5: in "Fully manual" mode the dialog is shown once for every series, before
\* the series is binarized, each series is binarized with the pair its own
\* dialog captured, and a completed run of N series has shown N dialogs.
C5_FullyManualPromptsEverySeries ==
    FullyManual =>
        /\ promptCount = thrSeen
        /\ binCount <= promptCount
        /\ pc \in {"binarize", "ratio", "export", "close"} => promptIter = iter
        /\ pc \in {"ratio", "export", "close"} => lastBin = lastPrompt
        /\ pc = "done" => promptCount = Len(exportLog) /\ promptCount = iter

C5_Witness ==
    /\ FullyManual
    /\ pc = "done"
    /\ promptCount >= 3
    /\ lastPrompt[2] # 0

\* C6: in "Fully automatic" mode the dialog is never shown.
C6_AutomaticNeverPrompts == Automatic => promptCount = 0

C6_Witness == Automatic /\ thrSeen >= 1 /\ thresh_value = 0 /\ pc = "binarize"

RECURSIVE SumRes(_, _)
SumRes(res, n) == IF n = 0 THEN 0 ELSE res[n] + SumRes(res, n - 1)

InSeries == pc \in {"segment", "threshold", "binarize", "ratio", "export", "close"}

EndsWith(name, suffix) ==
    /\ Len(suffix) <= Len(name)
    /\ SubSeq(name, Len(name) - Len(suffix) + 1, Len(name)) = suffix

\* the files under the root whose name ends with the suffix, taken literally
C8_Matching ==
    UNION {{os_path_join(DirPath(src_dir, d), tree[d][k]) :
                k \in {j \in DOMAIN tree[d] : EndsWith(tree[d][j], filename_filter)}} :
           d \in DOMAIN tree}

\* C8: the files the loop goes through are exactly the files at any depth
\* whose name ends with filename_filter taken as a literal string, each once,
\* in sorted order of their path; with no such file nothing is processed.
C8_ProcessesLiteralSuffixMatches ==
    pc \notin {"start", "enumerated"} =>
        /\ {order[i] : i \in DOMAIN order} = C8_Matching
        /\ Distinct(order)
        /\ \A i \in 1..(Len(order) - 1) : StrLess(order[i], order[i + 1])
        /\ pc = "finish" /\ file_id = 0 => C8_Matching = {}

\* C9: once a step has failed nothing more happens: no step is taken again,
\* no series is opened, no file inspected, nothing exported, and the final
\* message is not logged.
C9_FailureEndsTheRun ==
    /\ [](error # "none" => ~finished /\ pc = "halt")
    /\ [][error # "none" =>
            /\ pc' = "halt"
            /\ UNCHANGED <<file_id, series, iter, loadIndex, resolutions,
                           exportLog, outputs, finished>>]_vars

C9_Witness ==
    /\ error = "Exception"
    /\ pc = "halt"
    /\ file_id + 1 < Len(order)
    /\ series + 1 < series_count
    /\ ~finished

ExportedNames == {os_path_basename(exportLog[i].file) : i \in DOMAIN exportLog}

LastExport(p) ==
    LET i == CHOOSE k \in DOMAIN exportLog :
                 /\ exportLog[k].path = p
                 /\ \A j \in DOMAIN exportLog : exportLog[j].path = p => j <= k
    IN  [file |-> exportLog[i].file, series |-> exportLog[i].series]

\* C10: the output path is a function of the input's base name alone (out_dir
\* and the alignment flag being fixed for the run): the series of a file, and
\* files of the same base name in different directories, are written to one
\* path, which holds the result exported last, and there are at most as many
\* output files as distinct input base names.
C10_OutputPathIgnoresSeriesAndFolder ==
    /\ \A j \in DOMAIN exportLog : \A i \in 1..(j - 1) :
        exportLog[i].path # exportLog[j].path =>
            os_path_basename(exportLog[i].file) # os_path_basename(exportLog[j].file)
    /\ DOMAIN outputs = {exportLog[i].path : i \in DOMAIN exportLog}
    /\ \A p \in DOMAIN outputs : outputs[p] = LastExport(p)
    /\ Cardinality(DOMAIN outputs) <= Cardinality(ExportedNames)

C10_Witness ==
    \E i, j \in DOMAIN exportLog :
        /\ i < j
        /\ exportLog[i].file # exportLog[j].file
        /\ exportLog[i].path = exportLog[j].path
        /\ exportLog[i].series = 1
        /\ outputs[exportLog[i].path].file = exportLog[j].file

====
